---- MODULE Spec2Model ----
(***************************************************************************)
(* Model of Lab1.go: bigram profiles of protein sequences, the             *)
(* concurrency-limited batch builder, the chunked ingestion driver, the    *)
(* bounded top-K selection and the report of main.                         *)
(*                                                                         *)
(* Strings are sequences of byte values (0..255).  A float64 score         *)
(* float64(a)/float64(b) is kept as the exact fraction [num, den]; den = 0 *)
(* is the NaN that 0/0 produces.  For the operand sizes reached here two   *)
(* different fractions never round to the same float64, so comparing by    *)
(* cross-multiplication is what the float comparison does, and every       *)
(* comparison with a NaN is false.                                         *)
(***************************************************************************)
EXTENDS Integers, Sequences, FiniteSets, Bags, TLC

----------------------------------------------------------------------------
(* Bounds of the model *)

\* longest sequence of the scoring specification
MaxSeqLen == 3
\* largest batch handed to the batch builder in SpecBuild
MaxBatch == 3
\* largest concurrency limit (maxGoroutines)
MaxLimit == 2
\* longest input text, in lines, of the ingestion specification
MaxLines == 4
\* largest chunkSize of the ingestion specification
MaxChunk == 2
\* largest profile table of the selection specification
MaxTable == 3
\* largest topN of the selection specification
MaxTopN == 2
MaxRecords == 7

----------------------------------------------------------------------------
(* Program constants *)

ProfileSize == 676
CharA == 65
Letters == 26
ByteMod == 256
MarkerChar == 62

\* the letters the inputs are written in: 'A' and 'Z', the ends of the range
Alphabet == {65, 90}
\* '[', the byte after 'Z'
BadChar == 90 + 1

IsUpper(sequence) == \A p \in 1..Len(sequence) : sequence[p] \in 65..90

RECURSIVE SeqsUpTo(_)
SeqsUpTo(n) ==
    IF n = 0 THEN {<< >>}
    ELSE LET shorter == SeqsUpTo(n - 1)
         IN  shorter \cup {Append(s, c) : s \in {t \in shorter : Len(t) = n - 1}, c \in Alphabet}

RECURSIVE TuplesUpTo(_, _)
TuplesUpTo(S, n) ==
    IF n = 0 THEN {<< >>}
    ELSE LET shorter == TuplesUpTo(S, n - 1)
         IN  shorter \cup {Append(s, e) : s \in {t \in shorter : Len(t) = n - 1}, e \in S}

----------------------------------------------------------------------------
(* buildProfile *)

ZeroCounts == [j \in 0..(ProfileSize - 1) |-> 0]

\* ProteinProfile{}: the zero value of a slot of make([]ProteinProfile, n)
ZeroProfile == [Profile |-> ZeroCounts, Sum |-> 0]

\* sequence[i]-'A' is a byte subtraction: it wraps modulo 256.  i is the
\* 0-based loop index; TLA+ sequences are 1-based.
BigramIndexMut(sequence, i) ==
    (((sequence[i + 1] - CharA) % ByteMod) * Letters) + ((sequence[i + 1] - CharA) % ByteMod)

BigramIndex(sequence, i) ==
    (((sequence[i + 1] - CharA) % ByteMod) * Letters) + ((sequence[i + 2] - CharA) % ByteMod)

\* profile[index] panics when index is outside the array
buildProfilePanics(sequence) ==
    \E i \in 0..(Len(sequence) - 2) : BigramIndex(sequence, i) >= ProfileSize

\* the loop condition i+1 < len(sequence)
LoopBound(i, n) == i + 1 < n

\* The loop of buildProfile from index i on.  The counters are uint32 and
\* uint64; they count at most Len(sequence) - 1 bigrams, far below 2^32.
RECURSIVE buildProfileFrom(_, _, _, _)
buildProfileFrom(sequence, i, profile, sum) ==
    IF LoopBound(i, Len(sequence))
    THEN LET index == BigramIndex(sequence, i)
         IN  buildProfileFrom(sequence, i + 1,
                              [profile EXCEPT ![index] = @ + 1], sum + 1)
    ELSE [Profile |-> profile, Sum |-> sum]

buildProfile(sequence) == buildProfileFrom(sequence, 0, ZeroCounts, 0)

----------------------------------------------------------------------------
(* calculateSimilarity *)

MinCountMut(x, y) == IF x < y THEN y ELSE x

\* the branch of the loop body: the smaller of the two counts
MinCount(x, y) == IF x < y THEN x ELSE y

\* The loop over i = 0 .. 675 adds the smaller count at every index.  An index
\* whose smaller count is 0 adds nothing, so the sum is taken over the others
\* (the additions are of naturals far below 2^64: their order does not matter).
RECURSIVE SumMinOver(_, _, _)
SumMinOver(X, Y, indices) ==
    IF indices = {} THEN 0
    ELSE LET i == CHOOSE j \in indices : \A k \in indices : j <= k
         IN  MinCount(X.Profile[i], Y.Profile[i]) + SumMinOver(X, Y, indices \ {i})

SumMin(X, Y) ==
    SumMinOver(X, Y, {i \in 0..(ProfileSize - 1) : MinCount(X.Profile[i], Y.Profile[i]) # 0})

\* uint64 subtraction: wraps modulo 2^64 when b > a
Uint64Sub(a, b) == IF a >= b THEN a - b ELSE (a - b) + 2^64

\* float64(sumMin) / float64(sumMax), kept as the fraction
calculateSimilarity(X, Y) ==
    LET sumMin == SumMin(X, Y)
        sumMax == Uint64Sub(X.Sum + Y.Sum, sumMin)
    IN  [num |-> sumMin, den |-> sumMax]

\* float64 comparisons and negation on fractions; den = 0 is NaN
IsNaN(a) == a.den = 0
FGt(a, b) == ~IsNaN(a) /\ ~IsNaN(b) /\ a.num * b.den > b.num * a.den
FGe(a, b) == ~IsNaN(a) /\ ~IsNaN(b) /\ a.num * b.den >= b.num * a.den
FNeg(a) == [num |-> 0 - a.num, den |-> a.den]

----------------------------------------------------------------------------
(* MaxHeap and container/heap.  Indices are 0-based as in the source. *)

LessMut(h, i, j) == FGt(h[j + 1].similarity, h[i + 1].similarity)

Less(h, i, j) == FGt(h[i + 1].similarity, h[j + 1].similarity)

Swap(h, i, j) == [h EXCEPT ![i + 1] = h[j + 1], ![j + 1] = h[i + 1]]

\* heap.up: the parent index (j-1)/2 truncates toward zero, so it is 0 for j = 0
RECURSIVE up(_, _)
up(h, j) ==
    LET i == IF j = 0 THEN 0 ELSE (j - 1) \div 2
    IN  IF i = j \/ ~Less(h, j, i) THEN h ELSE up(Swap(h, i, j), i)

\* heap.down over the first n elements
RECURSIVE down(_, _, _)
down(h, i, n) ==
    LET j1 == 2 * i + 1
    IN  IF j1 >= n THEN h
        ELSE LET j2 == j1 + 1
                 j  == IF j2 < n /\ Less(h, j2, j1) THEN j2 ELSE j1
             IN  IF ~Less(h, j, i) THEN h ELSE down(Swap(h, i, j), j, n)

\* heap.Push: MaxHeap.Push appends, then up from the last index
heapPush(h, x) == up(Append(h, x), Len(h))

\* heap.Pop: swap root and last, down over the first n, MaxHeap.Pop takes the last
heapPopMut(h) == [heap |-> SubSeq(h, 1, Len(h) - 1), item |-> h[Len(h)]]

\* heap.Pop: swap the root with the last element, sift down, take the last
heapPop(h) ==
    LET n  == Len(h) - 1
        h2 == down(Swap(h, 0, n), 0, n)
    IN  [heap |-> SubSeq(h2, 1, n), item |-> h2[n + 1]]

----------------------------------------------------------------------------
(* State *)

VARIABLES
    \* processFileInChunks
    lines,                  \* the lines the scanner yields, in order
    chunkSize,
    maxGoroutines,
    pos,                    \* lines scanned so far (lineCount)
    allNames,
    allProfiles,
    currentChunkNames,
    currentChunkSequences,
    currentName,
    currentSequence,
    totalProcessed,
    pc,                     \* position of processFileInChunks
    \* buildProfilesParallel
    sequences,
    profiles,
    wg,                     \* counter of the WaitGroup
    semaphore,              \* number of elements in the channel
    bi,                     \* iterations of the range loop completed
    bpc,                    \* position of the dispatching goroutine
    wpc,                    \* position of the worker of each index
    crashed,                \* the runtime ended the process on an unrecovered panic
    \* findTop100Similar
    newProteinSequence,
    topN,
    newProfile,
    similarity,
    minHeap,
    ti,                     \* iterations of the range loop completed
    result,
    tpc,
    \* main
    err,                    \* the error processFileInChunks returned
    mpc,
    readCount,              \* the count of the "read" message, -1 before it
    ri,                     \* the index of the report loop
    report                  \* the lines of the ranked report written so far

driverVars == <<lines, chunkSize, pos, allNames, allProfiles, currentChunkNames,
                currentChunkSequences, currentName, currentSequence,
                totalProcessed, pc>>
builderVars == <<sequences, profiles, wg, semaphore, bi, bpc, wpc, crashed>>
topVars == <<newProteinSequence, topN, newProfile, similarity, minHeap, ti, result, tpc>>
mainVars == <<err, mpc, readCount, ri, report>>
vars == <<driverVars, maxGoroutines, builderVars, topVars, mainVars>>

----------------------------------------------------------------------------
(* buildProfilesParallel *)

\* entry of the call: the output slice, the WaitGroup and the channel are made
BuildCall(seqs) ==
    /\ sequences' = seqs
    /\ profiles' = [w \in 1..Len(seqs) |-> ZeroProfile]
    /\ wg' = 0
    /\ semaphore' = 0
    /\ bi' = 0
    /\ wpc' = [w \in 1..Len(seqs) |-> "idle"]
    /\ bpc' = "loop"

SlotFreeMut(n, limit) == n < limit + 1

\* a send on the buffered channel proceeds while it holds fewer than its capacity
SlotFree(n, limit) == n < limit

\* one iteration of the range loop: wg.Add(1), the send on the channel (blocks
\* while the channel is full), and the go statement for index bi
Dispatch ==
    /\ ~crashed
    /\ bpc = "loop"
    /\ bi < Len(sequences)
    /\ SlotFree(semaphore, maxGoroutines)
    /\ wg' = wg + 1
    /\ semaphore' = semaphore + 1
    /\ wpc' = [wpc EXCEPT ![bi + 1] = "run"]
    /\ bi' = bi + 1
    /\ UNCHANGED <<mainVars, driverVars, maxGoroutines, sequences, profiles, bpc, crashed,
                   topVars>>

BarrierOpenMut(counter) == counter <= 1

\* wg.Wait() returns when the counter is zero
BarrierOpen(counter) == counter = 0

\* after the loop: wg.Wait() and the return of profiles
WaitReturn ==
    /\ ~crashed
    /\ bpc = "loop"
    /\ bi = Len(sequences)
    /\ BarrierOpen(wg)
    /\ bpc' = "returned"
    /\ UNCHANGED <<mainVars, driverVars, maxGoroutines, sequences, profiles, wg, semaphore, bi,
                   wpc, crashed, topVars>>

SlotOfMut(index) == IF index > 1 THEN index - 1 ELSE index

\* the slot a worker writes: the index it was given (1-based here)
SlotOf(index) == index

\* profile := buildProfile(sequence); profiles[index] = profile
WorkerWrite(w) ==
    /\ ~crashed
    /\ wpc[w] = "run"
    /\ ~buildProfilePanics(sequences[w])
    /\ profiles' = [profiles EXCEPT ![SlotOf(w)] = buildProfile(sequences[w])]
    /\ wpc' = [wpc EXCEPT ![w] = "written"]
    /\ UNCHANGED <<mainVars, driverVars, maxGoroutines, sequences, wg, semaphore, bi, bpc,
                   crashed, topVars>>

\* buildProfile panics on an index outside the array: the goroutine unwinds,
\* running the deferred wg.Done(); lines 83 and 84 are skipped
WorkerPanic(w) ==
    /\ ~crashed
    /\ wpc[w] = "run"
    /\ buildProfilePanics(sequences[w])
    /\ wg' = wg - 1
    /\ wpc' = [wpc EXCEPT ![w] = "panicked"]
    /\ UNCHANGED <<mainVars, driverVars, maxGoroutines, sequences, profiles, semaphore, bi, bpc,
                   crashed, topVars>>

\* the panic was not recovered: the runtime ends the whole process
Crash ==
    /\ ~crashed
    /\ \E w \in DOMAIN wpc : wpc[w] = "panicked"
    /\ crashed' = TRUE
    /\ UNCHANGED <<mainVars, driverVars, maxGoroutines, sequences, profiles, wg, semaphore, bi,
                   bpc, wpc, topVars>>

ReleasedMut(n) == n

\* the number of slots held after a receive from the channel
Released(n) == n - 1

\* <-semaphore
WorkerRelease(w) ==
    /\ ~crashed
    /\ wpc[w] = "written"
    /\ semaphore' = Released(semaphore)
    /\ wpc' = [wpc EXCEPT ![w] = "released"]
    /\ UNCHANGED <<mainVars, driverVars, maxGoroutines, sequences, profiles, wg, bi, bpc,
                   crashed, topVars>>

\* the deferred wg.Done() as the goroutine returns
WorkerDone(w) ==
    /\ ~crashed
    /\ wpc[w] = "released"
    /\ wg' = wg - 1
    /\ wpc' = [wpc EXCEPT ![w] = "done"]
    /\ UNCHANGED <<mainVars, driverVars, maxGoroutines, sequences, profiles, semaphore, bi, bpc,
                   crashed, topVars>>

Worker ==
    \E w \in DOMAIN wpc :
        \/ WorkerWrite(w)
        \/ WorkerPanic(w)
        \/ WorkerRelease(w)
        \/ WorkerDone(w)

BuilderNext ==
    \/ Dispatch
    \/ WaitReturn
    \/ Worker
    \/ Crash

----------------------------------------------------------------------------
(* processFileInChunks *)

\* strings.HasPrefix(line, ">")
IsMarker(line) == Len(line) >= 1 /\ line[1] = MarkerChar

FlushDueMut(n, size) == n > size

\* len(currentChunkSequences) >= chunkSize
FlushDue(n, size) == n >= size

\* The locals of the scanner loop that one line changes, as a record:
\* names, seqs (the current chunk), name (currentName), seq (currentSequence).
\* Lines 137-146: a header line finalizes the record in progress, if there is
\* one (currentName != ""), and becomes currentName; any other line is
\* appended to currentSequence.
ScanStep(st, line) ==
    IF IsMarker(line)
    THEN IF st.name # << >>
         THEN [names |-> Append(st.names, st.name),
               seqs  |-> Append(st.seqs, st.seq),
               name  |-> line,
               seq   |-> << >>]
         ELSE [st EXCEPT !.name = line]
    ELSE [st EXCEPT !.seq = st.seq \o line]

\* lines 158-161: at the end of the input the record in progress is finalized
EndStep(st) ==
    IF st.name # << >>
    THEN [st EXCEPT !.names = Append(st.names, st.name),
                    !.seqs  = Append(st.seqs, st.seq)]
    ELSE st

ScanState ==
    [names |-> currentChunkNames, seqs |-> currentChunkSequences,
     name |-> currentName, seq |-> currentSequence]

AppendChunkMut(all, chunk) == chunk \o all

\* append(all, chunk...)
AppendChunk(all, chunk) == all \o chunk

\* One iteration of the scanner loop up to the call of buildProfilesParallel:
\* lines 135-147 on the next line, then the test of line 148 and, when the
\* chunk is full, the entry of the call of line 149.
ScanLine ==
    /\ ~crashed
    /\ pc = "scan"
    /\ pos < Len(lines)
    /\ LET st == ScanStep(ScanState, lines[pos + 1])
       IN  /\ pos' = pos + 1
           /\ currentChunkNames' = st.names
           /\ currentChunkSequences' = st.seqs
           /\ currentName' = st.name
           /\ currentSequence' = st.seq
           /\ IF FlushDue(Len(st.seqs), chunkSize)
              THEN /\ pc' = "flush"
                   /\ BuildCall(st.seqs)
              ELSE /\ pc' = "scan"
                   /\ UNCHANGED <<sequences, profiles, wg, semaphore, bi, bpc, wpc>>
    /\ UNCHANGED <<mainVars, lines, chunkSize, maxGoroutines, allNames, allProfiles, totalProcessed,
                   crashed, topVars>>

\* lines 149-154 once the call has returned
FlushReturn ==
    /\ ~crashed
    /\ pc = "flush"
    /\ bpc = "returned"
    /\ allNames' = AppendChunk(allNames, currentChunkNames)
    /\ allProfiles' = AppendChunk(allProfiles, profiles)
    /\ totalProcessed' = totalProcessed + Len(currentChunkSequences)
    /\ currentChunkNames' = << >>
    /\ currentChunkSequences' = << >>
    /\ pc' = "scan"
    /\ bpc' = "idle"
    /\ UNCHANGED <<mainVars, lines, chunkSize, maxGoroutines, pos, currentName, currentSequence,
                   sequences, profiles, wg, semaphore, bi, wpc, crashed, topVars>>

\* after the scan loop: lines 158-164, up to the call for the last chunk, or to
\* the return of line 169 when there is nothing left
AfterLoop ==
    /\ LET st == EndStep(ScanState)
       IN  /\ currentChunkNames' = st.names
           /\ currentChunkSequences' = st.seqs
           /\ IF Len(st.seqs) > 0
              THEN /\ pc' = "final"
                   /\ BuildCall(st.seqs)
              ELSE /\ pc' = "done"
                   /\ UNCHANGED <<sequences, profiles, wg, semaphore, bi, bpc, wpc>>
    /\ UNCHANGED <<lines, chunkSize, maxGoroutines, pos, allNames, allProfiles,
                   currentName, currentSequence, totalProcessed, crashed, topVars>>

\* scanner.Scan() returned false at the end of the input; scanner.Err() is nil
EndOfInput ==
    /\ ~crashed
    /\ pc = "scan"
    /\ pos = Len(lines)
    /\ AfterLoop
    /\ UNCHANGED mainVars

\* scanner.Scan() returned false because reading failed before the end of the
\* input: the same lines 158-164 run, and scanner.Err() is not nil
ScanFail ==
    /\ ~crashed
    /\ pc = "scan"
    /\ pos < Len(lines)
    /\ AfterLoop
    /\ err' = "scan"
    /\ UNCHANGED <<mpc, readCount, ri, report>>

\* os.Open succeeded: lines 117-132
OpenFile ==
    /\ pc = "open"
    /\ pc' = "scan"
    /\ UNCHANGED <<mainVars, lines, chunkSize, maxGoroutines, pos, allNames, allProfiles,
                   currentChunkNames, currentChunkSequences, currentName,
                   currentSequence, totalProcessed, builderVars, topVars>>

\* os.Open failed: return nil, nil, fmt.Errorf(...) of lines 118-120
OpenFail ==
    /\ pc = "open"
    /\ pc' = "done"
    /\ allNames' = << >>
    /\ allProfiles' = << >>
    /\ err' = "open"
    /\ UNCHANGED <<mpc, readCount, ri, report, lines, chunkSize, maxGoroutines, pos,
                   currentChunkNames, currentChunkSequences, currentName,
                   currentSequence, totalProcessed, builderVars, topVars>>

\* lines 164-169 once the call for the last chunk has returned
FinalReturn ==
    /\ ~crashed
    /\ pc = "final"
    /\ bpc = "returned"
    /\ allNames' = AppendChunk(allNames, currentChunkNames)
    /\ allProfiles' = AppendChunk(allProfiles, profiles)
    /\ pc' = "done"
    /\ bpc' = "idle"
    /\ UNCHANGED <<mainVars, lines, chunkSize, maxGoroutines, pos, currentChunkNames,
                   currentChunkSequences, currentName, currentSequence, totalProcessed,
                   sequences, profiles, wg, semaphore, bi, wpc, crashed, topVars>>

DriverNext ==
    \/ ScanLine
    \/ FlushReturn
    \/ EndOfInput
    \/ FinalReturn

----------------------------------------------------------------------------
(* Variables a specification does not use *)

DriverIdle ==
    /\ lines = << >>
    /\ chunkSize = 1
    /\ pos = 0
    /\ allNames = << >>
    /\ allProfiles = << >>
    /\ currentChunkNames = << >>
    /\ currentChunkSequences = << >>
    /\ currentName = << >>
    /\ currentSequence = << >>
    /\ totalProcessed = 0
    /\ pc = "none"

BuilderIdle ==
    /\ sequences = << >>
    /\ profiles = << >>
    /\ wg = 0
    /\ semaphore = 0
    /\ bi = 0
    /\ bpc = "idle"
    /\ wpc = << >>
    /\ crashed = FALSE

MainIdle ==
    /\ err = "nil"
    /\ mpc = "none"
    /\ readCount = -1
    /\ ri = 0
    /\ report = << >>

TopIdle ==
    /\ newProteinSequence = << >>
    /\ topN = 1
    /\ newProfile = ZeroProfile
    /\ similarity = [num |-> 0, den |-> 1]
    /\ minHeap = << >>
    /\ ti = 0
    /\ result = << >>
    /\ tpc = "none"

----------------------------------------------------------------------------
(* SpecBuild: one call of buildProfilesParallel *)

\* "", "AZ", "ZAZ", and "[A", a sequence with a byte outside A-Z
BatchSeqs == {<< >>, <<65, 90>>, <<90, 65, 90>>, <<BadChar, 65>>}

InitBuild ==
    /\ DriverIdle
    /\ TopIdle
    /\ MainIdle
    /\ maxGoroutines \in 1..MaxLimit
    /\ sequences \in TuplesUpTo(BatchSeqs, MaxBatch)
    /\ profiles = [w \in 1..Len(sequences) |-> ZeroProfile]
    /\ wg = 0
    /\ semaphore = 0
    /\ bi = 0
    /\ wpc = [w \in 1..Len(sequences) |-> "idle"]
    /\ bpc = "loop"
    /\ crashed = FALSE

SpecBuild == InitBuild /\ [][BuilderNext]_vars

\* the same under the scheduling of the Go runtime: a goroutine that can take a
\* step is not kept from taking it for ever
\* "AZ" and "[A": a sequence buildProfile accepts and one it panics on
FairSeqs == {<<65, 90>>, <<BadChar, 65>>}

InitBuildFair ==
    /\ DriverIdle
    /\ TopIdle
    /\ MainIdle
    /\ maxGoroutines \in 1..MaxLimit
    /\ sequences \in TuplesUpTo(FairSeqs, MaxBatch)
    /\ profiles = [w \in 1..Len(sequences) |-> ZeroProfile]
    /\ wg = 0
    /\ semaphore = 0
    /\ bi = 0
    /\ wpc = [w \in 1..Len(sequences) |-> "idle"]
    /\ bpc = "loop"
    /\ crashed = FALSE

SpecBuildFair ==
    /\ InitBuildFair
    /\ [][BuilderNext]_vars
    /\ WF_vars(Dispatch)
    /\ WF_vars(WaitReturn)
    /\ WF_vars(Worker)

----------------------------------------------------------------------------
(* Spec: processFileInChunks on an opened file, with its calls of            *)
(* buildProfilesParallel                                                     *)

\* the lines of the input: the headers ">1" and ">2", the sequence line "AZ",
\* and "[A", a sequence line with a byte outside A-Z
LineSet == {<<MarkerChar, 49>>, <<MarkerChar, 50>>, <<65, 90>>, <<BadChar, 65>>}

Init ==
    /\ BuilderIdle
    /\ TopIdle
    /\ MainIdle
    /\ lines \in TuplesUpTo(LineSet, MaxLines)
    /\ chunkSize \in 1..MaxChunk
    /\ maxGoroutines \in 1..MaxLimit
    /\ pos = 0
    /\ allNames = << >>
    /\ allProfiles = << >>
    /\ currentChunkNames = << >>
    /\ currentChunkSequences = << >>
    /\ currentName = << >>
    /\ currentSequence = << >>
    /\ totalProcessed = 0
    /\ pc = "scan"

Next == DriverNext \/ BuilderNext

Spec == Init /\ [][Next]_vars

----------------------------------------------------------------------------
(* Claims about buildProfilesParallel, checked under SpecBuild *)

NoFault(seqs) == \A w \in 1..Len(seqs) : ~buildProfilePanics(seqs[w])
AllUpper(seqs) == \A w \in 1..Len(seqs) : IsUpper(seqs[w])

\* the workers that hold a slot of the channel: admitted, slot not yet released
Admitted == {w \in DOMAIN wpc : wpc[w] \in {"run", "written", "panicked"}}

\* C1: for a batch of uppercase sequences, the returned slice has the length
\* of the batch and its i-th element is buildProfile of the i-th input, under
\* every limit and every interleaving of the workers.
C1_OutputMatchesInput ==
    (bpc = "returned" /\ AllUpper(sequences)) =>
        /\ Len(profiles) = Len(sequences)
        /\ \A w \in 1..Len(sequences) : profiles[w] = buildProfile(sequences[w])

\* a batch of three uppercase sequences with different profiles has returned
\* under a limit smaller than the batch
C1_Witness ==
    /\ bpc = "returned"
    /\ AllUpper(sequences)
    /\ Len(sequences) = 3
    /\ maxGoroutines = 2
    /\ profiles[1] # profiles[2]
    /\ profiles[2] # profiles[3]
    /\ profiles[1] # profiles[3]

\* C2: in every state of a call the workers admitted and not yet released
\* number at most maxGoroutines.
C2_AtMostLimitAdmitted ==
    bpc # "idle" =>
        /\ Cardinality(Admitted) <= maxGoroutines
        /\ semaphore <= maxGoroutines

\* the limit is reached while sequences are still waiting to be dispatched
C2_Witness ==
    /\ pc = "none"
    /\ bpc = "loop"
    /\ maxGoroutines = 2
    /\ Cardinality(Admitted) = maxGoroutines
    /\ bi < Len(sequences)

\* C3 as stated: at the moment of return every output slot has been written
\* and no worker of the call is still profiling.
C3_ReturnAfterEverySlotWritten ==
    bpc = "returned" =>
        \A w \in 1..Len(sequences) : wpc[w] \in {"written", "released", "done"}

\* what holds of every call: at the moment of return no worker is pending or
\* running, and every slot whose sequence buildProfile accepts has been written
C3_ReturnAfterAllWorkers ==
    bpc = "returned" =>
        \A w \in 1..Len(sequences) :
            /\ wpc[w] \in {"done", "panicked"}
            /\ ~buildProfilePanics(sequences[w]) => wpc[w] = "done"

\* a full batch has returned, every worker done
C3_Witness ==
    /\ bpc = "returned"
    /\ Len(sequences) = 3
    /\ NoFault(sequences)
    /\ \A w \in 1..3 : wpc[w] = "done"

----------------------------------------------------------------------------
(* findTop100Similar *)

ProteinSimilarity(sim, nm) == [similarity |-> sim, name |-> nm]

TrimNeededMut(n, k) == n >= k

\* minHeap.Len() > topN
TrimNeeded(n, k) == n > k

\* newProfile := buildProfile(newProteinSequence); heap.Init on the empty heap
Query ==
    /\ tpc = "start"
    /\ ~buildProfilePanics(newProteinSequence)
    /\ newProfile' = buildProfile(newProteinSequence)
    /\ minHeap' = << >>
    /\ ti' = 0
    /\ tpc' = IF Len(allProfiles) = 0 THEN "drain" ELSE "loop"
    /\ UNCHANGED <<mainVars, driverVars, maxGoroutines, builderVars, newProteinSequence, topN,
                   similarity, result>>

\* lines 99-100: score the next table entry and push it with the score negated
PushStep ==
    /\ tpc = "loop"
    /\ similarity' = calculateSimilarity(newProfile, allProfiles[ti + 1])
    /\ minHeap' = heapPush(minHeap, ProteinSimilarity(FNeg(similarity'), allNames[ti + 1]))
    /\ tpc' = "trim"
    /\ UNCHANGED <<mainVars, driverVars, maxGoroutines, builderVars, newProteinSequence, topN,
                   newProfile, ti, result>>

\* lines 101-103: pop the root when the heap is larger than topN
TrimStep ==
    /\ tpc = "trim"
    /\ minHeap' = IF TrimNeeded(Len(minHeap), topN) THEN heapPop(minHeap).heap ELSE minHeap
    /\ ti' = ti + 1
    /\ tpc' = IF ti + 1 = Len(allProfiles) THEN "drain" ELSE "loop"
    /\ UNCHANGED <<mainVars, driverVars, maxGoroutines, builderVars, newProteinSequence, topN,
                   newProfile, similarity, result>>

\* lines 107-111: pop the root, negate its score back, append it to result
DrainStep ==
    /\ tpc = "drain"
    /\ Len(minHeap) > 0
    /\ LET popped == heapPop(minHeap)
       IN  /\ minHeap' = popped.heap
           /\ result' = Append(result, ProteinSimilarity(FNeg(popped.item.similarity),
                                                         popped.item.name))
    /\ UNCHANGED <<mainVars, driverVars, maxGoroutines, builderVars, newProteinSequence, topN,
                   newProfile, similarity, ti, tpc>>

\* line 113
TopReturn ==
    /\ tpc = "drain"
    /\ Len(minHeap) = 0
    /\ tpc' = "returned"
    /\ UNCHANGED <<mainVars, driverVars, maxGoroutines, builderVars, newProteinSequence, topN,
                   newProfile, similarity, minHeap, ti, result>>

TopNext ==
    \/ Query
    \/ PushStep
    \/ TrimStep
    \/ DrainStep
    \/ TopReturn

----------------------------------------------------------------------------
(* SpecTop: one call of findTop100Similar on a table of built profiles *)

\* the sequences the table is built from: "", "AA", "AAZ"
TableSeqs == {<< >>, <<65, 65>>, <<65, 65, 90>>}

\* the queries: "", "AA", "AZ", "AAZ"
QuerySeqs == {<< >>, <<65, 65>>, <<65, 90>>, <<65, 65, 90>>}

\* the header line of the i-th record: ">1" and ">2" in turn, so that names repeat
TableName(i) == <<MarkerChar, 49 + ((i - 1) % 2)>>

\* the variables of the other operations while findTop100Similar runs
TopOnly ==
    /\ BuilderIdle
    /\ maxGoroutines = 1
    /\ lines = << >>
    /\ chunkSize = 1
    /\ pos = 0
    /\ currentChunkNames = << >>
    /\ currentChunkSequences = << >>
    /\ currentName = << >>
    /\ currentSequence = << >>
    /\ totalProcessed = 0
    /\ pc = "done"

\* the locals of findTop100Similar at its entry
TopEntry ==
    /\ newProfile = ZeroProfile
    /\ similarity = [num |-> 0, den |-> 1]
    /\ minHeap = << >>
    /\ ti = 0
    /\ result = << >>
    /\ tpc = "start"

InitTop ==
    /\ TopOnly
    /\ MainIdle
    /\ \E t \in TuplesUpTo(TableSeqs, MaxTable) :
          /\ allProfiles = [i \in 1..Len(t) |-> buildProfile(t[i])]
          /\ allNames = [i \in 1..Len(t) |-> TableName(i)]
    /\ newProteinSequence \in QuerySeqs
    /\ topN \in 1..MaxTopN
    /\ TopEntry

SpecTop == InitTop /\ [][TopNext]_vars

----------------------------------------------------------------------------
(* SpecScore: findTop100Similar with topN = 1 on a table of one record, for  *)
(* every pair of a query and a record sequence up to MaxSeqLen letters, and  *)
(* for the queries of OutsideSeqs                                            *)

\* "A[" and "[A": sequences with a byte outside A-Z
OutsideSeqs == {<<65, BadChar>>, <<BadChar, 65>>}

InitScore ==
    /\ TopOnly
    /\ MainIdle
    /\ \E s \in SeqsUpTo(MaxSeqLen) :
          /\ allProfiles = <<buildProfile(s)>>
          /\ allNames = <<TableName(1)>>
    /\ newProteinSequence \in SeqsUpTo(MaxSeqLen) \cup OutsideSeqs
    /\ topN = 1
    /\ TopEntry

SpecScore == InitScore /\ [][TopNext]_vars

----------------------------------------------------------------------------
(* Claims about findTop100Similar (checked under SpecTop), buildProfile and   *)
(* calculateSimilarity (checked under SpecScore)                             *)

Min(a, b) == IF a < b THEN a ELSE b

\* the multiset of the elements of a sequence
SeqBag(s) ==
    [e \in {s[i] : i \in DOMAIN s} |-> Cardinality({i \in DOMAIN s : s[i] = e})]

\* the (score, name) pairs of the table for the query
TableEntries ==
    [i \in 1..Len(allProfiles) |->
        ProteinSimilarity(calculateSimilarity(newProfile, allProfiles[i]), allNames[i])]

\* no table entry scores 0/0
WellDefined == \A i \in 1..Len(allProfiles) : ~IsNaN(TableEntries[i].similarity)

\* C7: over a table of n entries with well-defined scores the selection
\* returns min(topN, n) results, a sub-multiset of the table's (score, name)
\* pairs, and every returned score is >= every score left out.
C7_TopKSelection ==
    (tpc = "returned" /\ WellDefined) =>
        LET table == SeqBag(TableEntries)
            got   == SeqBag(result)
            rest  == table (-) got
        IN  /\ Len(result) = Min(topN, Len(allProfiles))
            /\ got \sqsubseteq table
            /\ \A r \in BagToSet(got) : \A x \in BagToSet(rest) :
                   FGe(r.similarity, x.similarity)

\* a selection returned fewer entries than the table holds, leaving out a
\* strictly smaller score
C7_Witness ==
    /\ tpc = "returned"
    /\ WellDefined
    /\ Len(allProfiles) = 3
    /\ Len(result) = 2
    /\ \E i \in 1..3 : \A k \in 1..2 : FGt(result[k].similarity, TableEntries[i].similarity)

\* C8 as stated: the returned slice is in non-increasing score order.
C8_ReturnedDescending ==
    tpc = "returned" =>
        \A i \in 1..Len(result) : \A j \in 1..Len(result) :
            (i < j /\ ~IsNaN(result[i].similarity) /\ ~IsNaN(result[j].similarity))
                => FGe(result[i].similarity, result[j].similarity)

\* C8 amended: the returned slice is in non-decreasing score order (the
\* smallest retained score first): for i < j with both scores defined,
\* result[i].similarity <= result[j].similarity.
C8_ReturnedAscending ==
    tpc = "returned" =>
        \A i \in 1..Len(result) : \A j \in 1..Len(result) :
            (i < j /\ ~IsNaN(result[i].similarity) /\ ~IsNaN(result[j].similarity))
                => FGe(result[j].similarity, result[i].similarity)

\* two results were returned, the first with the strictly smaller score
C8_Witness ==
    /\ tpc = "returned"
    /\ Len(result) = 2
    /\ FGt(result[2].similarity, result[1].similarity)

\* the number of positions p of S with S[p] = c1 and S[p+1] = c2
BigramCount(S, c1, c2) ==
    Cardinality({p \in 1..(Len(S) - 1) : S[p] = c1 /\ S[p + 1] = c2})

RECURSIVE SumCounts(_, _)
SumCounts(counts, indices) ==
    IF indices = {} THEN 0
    ELSE LET i == CHOOSE j \in indices : TRUE
         IN  counts[i] + SumCounts(counts, indices \ {i})

\* C9 (read in the state that follows line 94; newProfile is not assigned
\* again): for an uppercase sequence S, Profile[(c1-'A')*26 + (c2-'A')] is the
\* number of positions where c1 is followed by c2, and Sum is the sum of the
\* 676 counts, which is max(0, len(S) - 1); below length 2 all is zero.
C9_ProfileCountsBigrams ==
    (tpc \in {"loop", "drain"} /\ ti = 0 /\ IsUpper(newProteinSequence)) =>
        LET S == newProteinSequence
            nonzero == {k \in 0..(ProfileSize - 1) : newProfile.Profile[k] # 0}
        IN  /\ \A c1 \in 0..25 : \A c2 \in 0..25 :
                   newProfile.Profile[c1 * 26 + c2] = BigramCount(S, CharA + c1, CharA + c2)
            /\ newProfile.Sum = SumCounts(newProfile.Profile, nonzero)
            /\ newProfile.Sum = IF Len(S) >= 1 THEN Len(S) - 1 ELSE 0
            /\ Len(S) < 2 => newProfile = ZeroProfile

\* the profile of "AAZ" (or a longer sequence) has been built
C9_Witness ==
    /\ tpc = "loop"
    /\ ti = 0
    /\ Len(newProteinSequence) >= 3
    /\ newProfile.Profile[0] >= 1
    /\ newProfile.Profile[25] = 1
    /\ newProfile.Sum = Len(newProteinSequence) - 1

\* C10: for two built profiles with total > 0 the numerator and denominator
\* of the score satisfy 0 <= sumMin <= sumMax and sumMax > 0, and the uint64
\* subtraction X.Sum + Y.Sum - sumMin does not underflow.
C10_ScoreBounded ==
    (tpc = "trim" /\ newProfile.Sum > 0 /\ allProfiles[ti + 1].Sum > 0) =>
        /\ 0 <= similarity.num
        /\ similarity.num <= similarity.den
        /\ similarity.den > 0
        /\ similarity.num <= newProfile.Sum + allProfiles[ti + 1].Sum
        /\ similarity.den = newProfile.Sum + allProfiles[ti + 1].Sum - similarity.num

\* a score strictly between 0 and 1 has been computed
C10_Witness ==
    /\ tpc = "trim"
    /\ newProfile.Sum > 0
    /\ allProfiles[ti + 1].Sum > 0
    /\ 0 < similarity.num
    /\ similarity.num < similarity.den

----------------------------------------------------------------------------
(* Claims about processFileInChunks, checked under Spec *)

\* The records of an input text as the specification defines them: the i-th
\* record is named by the i-th header line and its sequence is the
\* concatenation of the lines between that header and the next one (or the
\* end of the input).
Markers(ls) == {p \in 1..Len(ls) : IsMarker(ls[p])}

NthMarker(ls, i) ==
    CHOOSE p \in Markers(ls) : Cardinality({q \in Markers(ls) : q < p}) = i - 1

RECURSIVE ConcatLines(_, _, _)
ConcatLines(ls, from, to) ==
    IF from > to THEN << >> ELSE ls[from] \o ConcatLines(ls, from + 1, to)

RecordName(ls, i) == ls[NthMarker(ls, i)]

RecordSeq(ls, i) ==
    LET first == NthMarker(ls, i) + 1
        last  == IF i < Cardinality(Markers(ls)) THEN NthMarker(ls, i + 1) - 1 ELSE Len(ls)
    IN  ConcatLines(ls, first, last)

\* every line is a header or is written in uppercase letters
ValidInput == \A p \in 1..Len(lines) : IsMarker(lines[p]) \/ IsUpper(lines[p])

\* C4 (restricted to inputs whose sequence lines are uppercase): the returned
\* table has one entry per header line, names and profiles of equal length,
\* the i-th name the i-th header line and the i-th profile the profile of the
\* i-th record.
C4_TableMatchesRecords ==
    (pc = "done" /\ ValidInput) =>
        /\ Len(allNames) = Cardinality(Markers(lines))
        /\ Len(allProfiles) = Len(allNames)
        /\ \A i \in 1..Len(allNames) :
              /\ allNames[i] = RecordName(lines, i)
              /\ allProfiles[i] = buildProfile(RecordSeq(lines, i))

\* the part of C4 that counts and names the entries
C4_CountAndNames ==
    pc = "done" =>
        /\ Len(allNames) = Cardinality(Markers(lines))
        /\ Len(allProfiles) = Len(allNames)
        /\ \A i \in 1..Len(allNames) : allNames[i] = RecordName(lines, i)

\* C5 (restricted to inputs whose sequence lines are uppercase): the sequence
\* handed to the batch builder for record i is the concatenation of the lines
\* between the i-th header and the next one, and nothing else.  The k-th
\* sequence of a call is record totalProcessed + k.
C5_SequenceIsTextAfterHeader ==
    (pc \in {"flush", "final"} /\ ValidInput) =>
        \A k \in 1..Len(sequences) :
            sequences[k] = RecordSeq(lines, totalProcessed + k)

\* C4 holds of the uppercase inputs that begin with a header line
C4_HoldsWhenHeaderFirst ==
    (pc = "done" /\ ValidInput /\ (Len(lines) = 0 \/ IsMarker(lines[1]))) =>
        /\ Len(allNames) = Cardinality(Markers(lines))
        /\ Len(allProfiles) = Len(allNames)
        /\ \A i \in 1..Len(allNames) :
              /\ allNames[i] = RecordName(lines, i)
              /\ allProfiles[i] = buildProfile(RecordSeq(lines, i))

\* C5 holds of the inputs that begin with a header line
C5_HoldsWhenHeaderFirst ==
    (pc \in {"flush", "final"} /\ IsMarker(lines[1])) =>
        \A k \in 1..Len(sequences) :
            sequences[k] = RecordSeq(lines, totalProcessed + k)

\* the table of the input when the scanner loop never flushes: lines 134-147
\* over every line, lines 158-161, and buildProfile of every sequence
RECURSIVE ScanFrom(_, _, _)
ScanFrom(ls, k, st) ==
    IF k > Len(ls) THEN EndStep(st) ELSE ScanFrom(ls, k + 1, ScanStep(st, ls[k]))

Unchunked(ls) ==
    ScanFrom(ls, 1, [names |-> << >>, seqs |-> << >>, name |-> << >>, seq |-> << >>])

\* the slot of a sequence once its worker has ended: the zero value when
\* buildProfile panicked before the write of line 83
SlotAfter(sequence) ==
    IF buildProfilePanics(sequence) THEN ZeroProfile ELSE buildProfile(sequence)

\* C6: whenever processFileInChunks returns, the table is the table of the
\* unchunked scan of the same input, whatever chunkSize and maxGoroutines
\* are: the same names in the same order and the same profiles.
C6_ChunkingInvariance ==
    pc = "done" =>
        LET whole == Unchunked(lines)
        IN  /\ allNames = whole.names
            /\ allProfiles = [i \in 1..Len(whole.seqs) |-> SlotAfter(whole.seqs[i])]

\* a table of three records was returned after a full chunk of two was
\* flushed and a partial last chunk was built, under a limit of two workers
C6_Witness ==
    /\ pc = "done"
    /\ chunkSize = 2
    /\ maxGoroutines = 2
    /\ totalProcessed = 2
    /\ Len(allNames) = 3
    /\ allNames[1] # allNames[2]
    /\ NoFault(Unchunked(lines).seqs)

----------------------------------------------------------------------------
(* Faults inside a batch, checked under SpecBuild *)

\* the workers that have started and have not yet finished their work
Live == {w \in DOMAIN wpc : wpc[w] \in {"run", "written", "released"}}

\* the workers that hold a slot of the channel and will still release it
Releasing == {w \in DOMAIN wpc : wpc[w] \in {"run", "written"}}

\* C11: a fault while profiling one sequence is contained: the process is not
\* brought down while another worker is still in the middle of its work, and
\* every slot of the semaphore that is held is held by a worker that is going
\* to release it
C11_FaultContained ==
    /\ crashed => Live = {}
    /\ semaphore = Cardinality(Releasing)

\* what the batch builder does keep when a worker faults: a worker that did not
\* fault has written its own slot with the profile of its own sequence, and the
\* call does not return while a worker is live
C11_OtherSlotsIntact ==
    /\ \A w \in DOMAIN wpc :
          wpc[w] \in {"written", "released", "done"} =>
              profiles[w] = buildProfile(sequences[w])
    /\ bpc = "returned" => Live = {}

----------------------------------------------------------------------------
(* Bytes outside A-Z and empty profiles, checked under SpecScore *)

\* the bigram windows of a sequence that hold a byte outside 'A'..'Z'
OutsideWindows(sequence) ==
    {i \in 0..(Len(sequence) - 2) :
        ~(sequence[i + 1] \in 65..90 /\ sequence[i + 2] \in 65..90)}

\* C12: buildProfile fails on every sequence that has a byte outside 'A'..'Z'
\* inside a bigram window: once buildProfile(newProteinSequence) has returned a
\* profile, the sequence has no such window
C12_OutsideByteFails ==
    tpc # "start" => OutsideWindows(newProteinSequence) = {}

\* what buildProfile does: it fails exactly when the byte arithmetic modulo 256
\* gives an index outside the array, and otherwise counts every window under
\* the index that arithmetic gives
C12_FailsOnlyOutOfRange ==
    tpc # "start" =>
        /\ \A i \in 0..(Len(newProteinSequence) - 2) :
              /\ BigramIndex(newProteinSequence, i) < ProfileSize
              /\ newProfile.Profile[BigramIndex(newProteinSequence, i)] >= 1
        /\ newProfile.Sum = IF Len(newProteinSequence) >= 1
                            THEN Len(newProteinSequence) - 1 ELSE 0

\* C13: when both profiles have total 0 the score calculateSimilarity returns
\* is a defined number, not the quotient 0/0, and the entries findTop100Similar
\* returns over such a table carry defined scores
C13_EmptyProfilesScoreDefined ==
    /\ (tpc = "trim" /\ newProfile.Sum = 0 /\ allProfiles[ti + 1].Sum = 0) =>
           ~IsNaN(similarity)
    /\ tpc = "returned" =>
           \A i \in 1..Len(result) : ~IsNaN(result[i].similarity)

\* the quotient is undefined only in that case: a score is NaN exactly when both
\* totals are 0
C13_UndefinedOnlyWhenBothEmpty ==
    tpc = "trim" =>
        (IsNaN(similarity) <=> (newProfile.Sum = 0 /\ allProfiles[ti + 1].Sum = 0))

----------------------------------------------------------------------------
(* main *)

\* topN := 100
MainTopN == 100

\* lines 189-192: the result of processFileInChunks is taken and the number of
\* names is reported as read; err is assigned and not looked at
ReportCount ==
    /\ ~crashed
    /\ mpc = "ingest"
    /\ pc = "done"
    /\ readCount' = Len(allNames)
    /\ mpc' = "counted"
    /\ UNCHANGED <<err, ri, report, driverVars, maxGoroutines, builderVars, topVars>>

\* lines 195-206: the query is read and findTop100Similar is called on the table
MainQuery ==
    /\ ~crashed
    /\ mpc = "counted"
    /\ newProteinSequence' \in QuerySeqs
    /\ topN' = MainTopN
    /\ tpc' = "start"
    /\ mpc' = "select"
    /\ UNCHANGED <<err, readCount, ri, report, driverVars, maxGoroutines, builderVars,
                   newProfile, similarity, minHeap, ti, result>>

\* fmt.Sprintf("%.4f", x): "NaN", or the score in ten-thousandths rounded to
\* nearest with ties to even
Format4(x) ==
    IF IsNaN(x) THEN [nan |-> TRUE, digits |-> 0]
    ELSE LET n == x.num * 10000
             q == n \div x.den
             r == n % x.den
         IN  [nan |-> FALSE,
              digits |-> IF (2 * r > x.den) \/ (2 * r = x.den /\ q % 2 = 1)
                         THEN q + 1 ELSE q]

\* the entry a step of the report loop reads
ReportEntryMut(res, i) == res[Len(res) - i]

ReportEntry(res, i) == res[i + 1]

\* line 210: i := len(topSimilarities) - 1, after findTop100Similar returned
ReportStart ==
    /\ mpc = "select"
    /\ tpc = "returned"
    /\ ri' = Len(result) - 1
    /\ mpc' = "report"
    /\ UNCHANGED <<err, readCount, report, driverVars, maxGoroutines, builderVars, topVars>>

\* lines 210-214: one line of the report, and i--
ReportLine ==
    /\ mpc = "report"
    /\ ri >= 0
    /\ LET e == ReportEntry(result, ri)
       IN  report' = Append(report, [rank |-> Len(result) - ri,
                                     name |-> e.name,
                                     similarity |-> e.similarity,
                                     text |-> Format4(e.similarity)])
    /\ ri' = ri - 1
    /\ UNCHANGED <<err, mpc, readCount, driverVars, maxGoroutines, builderVars, topVars>>

\* the loop condition i >= 0 fails: line 216
ReportEnd ==
    /\ mpc = "report"
    /\ ri < 0
    /\ mpc' = "done"
    /\ UNCHANGED <<err, readCount, ri, report, driverVars, maxGoroutines, builderVars,
                   topVars>>

ReportNext ==
    \/ ReportStart
    \/ ReportLine
    \/ ReportEnd

----------------------------------------------------------------------------
(* SpecSource: main's call of processFileInChunks on a source that may fail   *)
(* to open or to read, up to main's call of findTop100Similar.  The chunk     *)
(* size and the limit of the call are drawn from the bounds of the model.     *)

InitSource ==
    /\ BuilderIdle
    /\ TopIdle
    /\ lines \in TuplesUpTo(LineSet, MaxLines)
    /\ chunkSize \in 1..MaxChunk
    /\ maxGoroutines \in 1..MaxLimit
    /\ pos = 0
    /\ allNames = << >>
    /\ allProfiles = << >>
    /\ currentChunkNames = << >>
    /\ currentChunkSequences = << >>
    /\ currentName = << >>
    /\ currentSequence = << >>
    /\ totalProcessed = 0
    /\ pc = "open"
    /\ err = "nil"
    /\ mpc = "ingest"
    /\ readCount = -1
    /\ ri = 0
    /\ report = << >>

SourceNext ==
    \/ OpenFile
    \/ OpenFail
    \/ ScanFail
    \/ DriverNext
    \/ BuilderNext
    \/ ReportCount
    \/ MainQuery

SpecSource == InitSource /\ [][SourceNext]_vars

\* C14: a source failure is surfaced: a failed open returns an error and no
\* table, a failed read returns the scanner's error, and main does not go on to
\* report the count and to query the table when processFileInChunks returned
\* an error
C14_SourceFailureSurfaced ==
    /\ (pc = "done" /\ err = "open") => (allNames = << >> /\ allProfiles = << >>)
    /\ mpc \in {"counted", "select"} => err = "nil"

\* what processFileInChunks itself does on a failure: the error it returns is
\* not nil exactly when the open or the read failed, a failed open leaves no
\* table, and after a failed read the table is the one of the lines read
C14_ErrorReturned ==
    pc = "done" =>
        /\ err = "open" => (allNames = << >> /\ allProfiles = << >> /\ pos = 0)
        /\ err = "scan" =>
              /\ pos < Len(lines)
              /\ allNames = Unchunked(SubSeq(lines, 1, pos)).names
              /\ Len(allProfiles) = Len(allNames)
        /\ err = "nil" => pos = Len(lines)

----------------------------------------------------------------------------
(* The slots of the output slice, checked under SpecBuild *)

\* the workers that have written slot s
Writers(s) ==
    {w \in DOMAIN wpc : wpc[w] \in {"written", "released", "done"} /\ SlotOf(w) = s}

\* every worker of the batch has been started and has passed line 83 or left
\* its function
AllWorkersEnded == \A w \in DOMAIN wpc : wpc[w] \notin {"idle", "run"}

\* C15: the output slice has the length of the batch from the start of the
\* call, and once the workers of the batch have all ended every slot has been
\* written exactly once, by one worker
C15_EverySlotWrittenOnce ==
    bpc # "idle" =>
        /\ Len(profiles) = Len(sequences)
        /\ AllWorkersEnded =>
              \A s \in 1..Len(sequences) : Cardinality(Writers(s)) = 1

\* the writes are disjoint: no slot has two writers, a written slot holds the
\* profile of the sequence at its own index, an unwritten slot still holds the
\* zero value, and a slot is left unwritten at the end only by a worker that
\* panicked
C15_WritesDisjoint ==
    bpc # "idle" =>
        /\ Len(profiles) = Len(sequences)
        /\ \A s \in 1..Len(sequences) :
              /\ Cardinality(Writers(s)) <= 1
              /\ Writers(s) # {} => profiles[s] = buildProfile(sequences[s])
              /\ Writers(s) = {} => profiles[s] = ZeroProfile
              /\ (AllWorkersEnded /\ Writers(s) = {}) => wpc[s] = "panicked"

----------------------------------------------------------------------------
(* The chunks of processFileInChunks, checked under Spec *)

\* a step of the program while a worker is live: the driver is inside the call
\* for the current chunk, whose sequences are the batch of the workers, and the
\* step scans no line and writes nothing into the accumulated table
WorkersOfOneChunk ==
    Live # {} =>
        /\ pc \in {"flush", "final"}
        /\ bpc = "loop"
        /\ sequences = currentChunkSequences
        /\ Len(allProfiles) = totalProcessed
        /\ pos' = pos
        /\ allNames' = allNames
        /\ allProfiles' = allProfiles

\* a step that enters buildProfilesParallel: the call before it has returned
\* and its result has been taken, and no worker is live
CallAfterReturn ==
    (bpc # "loop" /\ bpc' = "loop") => (bpc = "idle" /\ Live = {})

\* C16: chunks are processed one after another: while a worker is live the
\* driver waits inside the call for that worker's chunk, scans no further line
\* and does not touch the accumulated table, and the call for the next chunk
\* is entered only after the call before it has returned
C16_ChunksSequential == [][WorkersOfOneChunk /\ CallAfterReturn]_vars

\* the last chunk, of two records, is being built by two live workers after a
\* first chunk of two records has been appended to the table
C16_Witness ==
    /\ pc = "final"
    /\ totalProcessed = 2
    /\ Len(allProfiles) = 2
    /\ Cardinality(Live) = 2

----------------------------------------------------------------------------
(* SpecChunks: processFileInChunks on inputs of up to MaxRecords records and  *)
(* chunk sizes up to MaxBatch                                                *)

\* the lines of an input of n records: the i-th record has the header
\* TableName(i), followed by the sequence line "AZ" when i is odd
RECURSIVE RecordLines(_)
RecordLines(n) ==
    IF n = 0 THEN << >>
    ELSE RecordLines(n - 1) \o
         (IF n % 2 = 1 THEN <<TableName(n), <<65, 90>>>> ELSE <<TableName(n)>>)

\* the inputs: 0..MaxRecords records, and one record with the sequence line "[A"
ChunkInputs ==
    {RecordLines(n) : n \in 0..MaxRecords} \cup {<<TableName(1), <<BadChar, 65>>>>}

InitChunks ==
    /\ BuilderIdle
    /\ TopIdle
    /\ MainIdle
    /\ lines \in ChunkInputs
    /\ chunkSize \in 1..MaxBatch
    /\ maxGoroutines \in 1..MaxLimit
    /\ pos = 0
    /\ allNames = << >>
    /\ allProfiles = << >>
    /\ currentChunkNames = << >>
    /\ currentChunkSequences = << >>
    /\ currentName = << >>
    /\ currentSequence = << >>
    /\ totalProcessed = 0
    /\ pc = "scan"

SpecChunks == InitChunks /\ [][Next]_vars

\* the batch of the call in progress is the records totalProcessed+1 .. of the
\* input, in order
CoversNextRecords ==
    /\ sequences = currentChunkSequences
    /\ Len(currentChunkNames) = Len(sequences)
    /\ \A k \in 1..Len(sequences) :
          /\ currentChunkNames[k] = RecordName(lines, totalProcessed + k)
          /\ sequences[k] = RecordSeq(lines, totalProcessed + k)

\* C17: with R records and chunk size c, a call of buildProfilesParallel made
\* from the scan loop gets exactly c sequences and is not the last one, the
\* call made after the loop gets between 1 and c sequences and ends at record
\* R, every call gets the records after the ones already taken, in order, and
\* there is no call when R = 0; the returned table has the R names in order.
\* For c = 3 and R = 7 the calls start at records 1 and 4 with 3 sequences and
\* at record 7 with 1 sequence, and the table has 7 entries.
C17_ChunkSizes ==
    LET R == Cardinality(Markers(lines))
    IN  /\ pc = "flush" =>
              /\ Len(sequences) = chunkSize
              /\ totalProcessed % chunkSize = 0
              /\ totalProcessed + Len(sequences) < R
              /\ CoversNextRecords
        /\ pc = "final" =>
              /\ Len(sequences) >= 1
              /\ Len(sequences) <= chunkSize
              /\ totalProcessed % chunkSize = 0
              /\ totalProcessed + Len(sequences) = R
              /\ CoversNextRecords
        /\ R = 0 => (pc \notin {"flush", "final"} /\ bpc = "idle")
        /\ pc = "done" =>
              /\ Len(allNames) = R
              /\ Len(allProfiles) = R
              /\ \A i \in 1..R :
                    /\ allNames[i] = RecordName(lines, i)
                    /\ allProfiles[i] = SlotAfter(RecordSeq(lines, i))
        /\ (chunkSize = 3 /\ R = 7) =>
              /\ pc = "flush" => (totalProcessed \in {0, 3} /\ Len(sequences) = 3)
              /\ pc = "final" => (totalProcessed = 6 /\ Len(sequences) = 1)
              /\ pc = "done" => (totalProcessed = 6 /\ Len(allNames) = 7)

\* 7 records and chunk size 3: the table of 7 entries has been returned after
\* two chunks of 3 were appended and a last call with 1 sequence
C17_Witness ==
    /\ pc = "done"
    /\ chunkSize = 3
    /\ Cardinality(Markers(lines)) = 7
    /\ totalProcessed = 6
    /\ Len(sequences) = 1
    /\ Len(allNames) = 7
    /\ ~crashed

----------------------------------------------------------------------------
(* The size of the heap during the selection, checked under SpecTop *)

HeapEntries ==
    [i \in 1..Len(minHeap) |->
        ProteinSimilarity(FNeg(minHeap[i].similarity), minHeap[i].name)]

----------------------------------------------------------------------------
(* Termination of buildProfilesParallel, checked under SpecBuildFair *)

\* the dispatcher is at the send of line 79 and every slot of the channel is held
DispatcherBlocked ==
    /\ bpc = "loop"
    /\ bi < Len(sequences)
    /\ ~SlotFree(semaphore, maxGoroutines)

\* C19: for a batch of uppercase sequences, under fair scheduling, the call
\* eventually returns, and whenever the dispatcher is blocked at the send into
\* the full channel a slot is eventually free again
C19_EventuallyReturns ==
    /\ AllUpper(sequences) => <>(bpc = "returned")
    /\ (AllUpper(sequences) /\ DispatcherBlocked) ~> SlotFree(semaphore, maxGoroutines)

\* a batch of three uppercase sequences has returned under a limit of one, with
\* every slot of the channel released
C19_Witness ==
    /\ bpc = "returned"
    /\ AllUpper(sequences)
    /\ Len(sequences) = 3
    /\ maxGoroutines = 1
    /\ semaphore = 0
    /\ wg = 0

----------------------------------------------------------------------------
(* SpecReport: main from its call of findTop100Similar to the end of the      *)
(* report, for topN up to MaxTopN and for the topN of main                   *)

InitReport ==
    /\ TopOnly
    /\ \E t \in TuplesUpTo(TableSeqs, MaxTable) :
          /\ allProfiles = [i \in 1..Len(t) |-> buildProfile(t[i])]
          /\ allNames = [i \in 1..Len(t) |-> TableName(i)]
    /\ newProteinSequence \in QuerySeqs
    /\ topN \in (1..MaxTopN) \cup {MainTopN}
    /\ TopEntry
    /\ err = "nil"
    /\ mpc = "select"
    /\ readCount = Len(allNames)
    /\ ri = 0
    /\ report = << >>

SpecReport == InitReport /\ [][TopNext \/ ReportNext]_vars

\* the (score, name) pairs of the lines of the report
ReportEntries ==
    [k \in 1..Len(report) |-> ProteinSimilarity(report[k].similarity, report[k].name)]

\* C20: the finished report has one line per selected entry, the k-th line has
\* rank k, no line has a larger score (or a larger printed score) than a line
\* before it, the lines are entries of the table, and no entry of the table has
\* a larger score than the line of rank 1
C20_ReportRanked ==
    mpc = "done" =>
        /\ Len(report) = Len(result)
        /\ Len(report) = Min(topN, Len(allProfiles))
        /\ \A k \in 1..Len(report) : report[k].rank = k
        /\ \A k \in 1..Len(report) : \A l \in 1..Len(report) :
              k < l =>
                 /\ ~FGt(report[l].similarity, report[k].similarity)
                 /\ (~report[k].text.nan /\ ~report[l].text.nan) =>
                        report[l].text.digits <= report[k].text.digits
        /\ SeqBag(ReportEntries) \sqsubseteq SeqBag(TableEntries)
        /\ Len(report) >= 1 =>
              \A i \in 1..Len(allProfiles) :
                  ~FGt(TableEntries[i].similarity, report[1].similarity)

\* a report of two lines over a table of three entries: rank 1 has a strictly
\* larger score than rank 2
C20_Witness ==
    /\ mpc = "done"
    /\ Len(allProfiles) = 3
    /\ Len(report) = 2
    /\ report[1].rank = 1
    /\ FGt(report[1].similarity, report[2].similarity)
    /\ ~report[1].text.nan
    /\ ~report[2].text.nan
    /\ report[1].text.digits > report[2].text.digits

====
